---- MODULE Spec2Model ----
(***************************************************************************)
(* A model of simplebank's transactional money transfer                    *)
(* (db/sqlc/store.go: Store.execTx, Store.TransferTx, addMoney) running    *)
(* against the accounts / entries / transfers tables through the queries   *)
(* of db/query/account.sql.                                                *)
(*                                                                         *)
(* The database is PostgreSQL at its default isolation level (BeginTx is   *)
(* called with nil options): what a transaction has written stays private  *)
(* to it until it commits, an UPDATE of a row takes that row's lock until  *)
(* the transaction ends, and a second UPDATE of the same row by another    *)
(* transaction waits for that lock and then works on the committed row.    *)
(* A commit that returns an error has not committed.  The row locks the    *)
(* inserts into entries and transfers take on the accounts they reference  *)
(* do not conflict with an UPDATE of the balance (see the note on          *)
(* FOR NO KEY UPDATE in account.sql), so only the UPDATEs wait.            *)
(***************************************************************************)
EXTENDS Integers, Sequences, FiniteSets, TLC

\* ------------------------------------------------------------------ bounds
NumTx == 2
NumAccounts == 3
MaxAmount == 2
MaxBelowZero == 1
NumRequests == 4
NumRingTx == 3
MaxRows == 10
MaxPage == 5

Txs == 1..NumTx
Requests == 1..NumRequests
AccountIDs == 1..NumAccounts
Amounts == 1..MaxAmount

\* ------------------------------------------------------------------ errors
\* A Go error is modelled by its message; a nil error by the text %v gives it.
Nil == "<nil>"
NotCalled == "<not called>"
ErrConnDone == "sql: connection is already closed"
ErrBadConn == "driver: bad connection"
ErrTxDone == "sql: transaction has already been committed or rolled back"
ErrNoRows == "sql: no rows in result set"
ErrCanceled == "context canceled"

BeginErrs == {ErrBadConn}
StepErrs == {ErrConnDone}
RollbackErrs == {ErrTxDone}
CommitErrs == {ErrBadConn}
PlainErrs ==
  BeginErrs \cup StepErrs \cup RollbackErrs \cup CommitErrs \cup {ErrNoRows, ErrCanceled}

\* fmt.Errorf("tx error: %v, rb err: %v", err, rbErr)
Errorf(err, rbErr) == "tx error: " \o err \o ", rb err: " \o rbErr

\* ------------------------------------------------------------------ rows
ZeroAccount == [ID |-> 0, Owner |-> "", Balance |-> 0, Currency |-> ""]
ZeroEntry == [ID |-> 0, AccountID |-> 0, Amount |-> 0]
ZeroTransfer == [ID |-> 0, FromAccountID |-> 0, ToAccountID |-> 0, Amount |-> 0]
ZeroParams == [FromAccountID |-> 0, ToAccountID |-> 0, Amount |-> 0]

\* var result TransferTxResult
ZeroResult ==
  [Transfer |-> ZeroTransfer, FromAccount |-> ZeroAccount, ToAccount |-> ZeroAccount,
   FromEntry |-> ZeroEntry, ToEntry |-> ZeroEntry]

TransferTxParams ==
  [FromAccountID : AccountIDs, ToAccountID : AccountIDs, Amount : Amounts]

\* Any params a caller can pass: TransferTx checks none of the three fields.
\* MissingID is an id no account row has; amounts reach down to -MaxBelowZero.
MissingID == NumAccounts + 1
AnyAccountIDs == AccountIDs \cup {MissingID}
AnyAmounts == -MaxBelowZero..MaxAmount
AnyTransferTxParams ==
  [FromAccountID : AnyAccountIDs, ToAccountID : AnyAccountIDs, Amount : AnyAmounts]

\* The accounts the transfers run on: created before the transfers start.
StartBalance(id) == 2 * id
StartAccount(id) ==
  [ID |-> id, Owner |-> "owner", Balance |-> StartBalance(id), Currency |-> "USD"]

\* ------------------------------------------------------------------ HTTP
StatusOK == 200
StatusBadRequest == 400
StatusNotFound == 404
StatusInternalServerError == 500

\* A request slot before its request arrives.
NoRequest ==
  [pc |-> "idle", id |-> 0, err |-> NotCalled, status |-> 0, body |-> ZeroAccount,
   store |-> << >>]

\* One call of a handler to the store, as the mock store of the tests sees it.
StoreCall(op, a) == [op |-> op, arg |-> a]

\* The ids a client can put in GET /accounts/:id: zero, the ids of the
\* accounts, and an id no account row has.
RequestIDs == 0..MissingID

VARIABLES
  accounts,     \* committed accounts table: id -> row
  transfers,    \* committed transfers table: set of rows
  entries,      \* committed entries table: set of rows
  transferSeq,  \* last id given out by the transfers id sequence
  entrySeq,     \* last id given out by the entries id sequence
  lock,         \* account id -> transaction holding the row lock, 0 when free
  txTransfers,  \* per transaction: transfer rows inserted, not yet committed
  txEntries,    \* per transaction: entry rows inserted, not yet committed
  txBalance,    \* per transaction: account id -> balance it wrote (row locked by it)
  pc,           \* per call: where TransferTx / execTx stands
  arg,          \* per call: the TransferTxParams
  result,       \* per call: the TransferTxResult being populated
  fnErr,        \* per call: what the unit of work returned
  rbErr,        \* per call: what tx.Rollback returned
  commitErr,    \* per call: what tx.Commit returned
  ret,          \* per call: the error TransferTx returned
  calls,        \* per call: the database calls made so far, in order
  cancelled,    \* per call: the caller's ctx has been cancelled
  http          \* per HTTP request: what was asked and what the server answered

vars ==
  <<accounts, transfers, entries, transferSeq, entrySeq, lock, txTransfers,
    txEntries, txBalance, pc, arg, result, fnErr, rbErr, commitErr, ret, calls,
    cancelled, http>>

Call(op, id, h) == [op |-> op, id |-> id, handle |-> h]

Logged(t, op, id, h) == [calls EXCEPT ![t] = Append(@, Call(op, id, h))]

\* ------------------------------------------------------------------ execTx
\* q := New(tx): the handle the unit of work of call t issues its queries on.
\* Handle t is the transaction execTx began for call t; handle 0 is the
\* store's own db handle, on which every statement commits by itself.
QOfStore(t) == 0

Q(t) == t

\* execTx after fn(q) returned err: roll back on an error, commit otherwise.
\* execTx starting the unit of work over when it failed.
AfterFnRetry(err) == IF err # Nil THEN "createTransfer" ELSE "commit"

AfterFnAlwaysCommit(err) == "commit"

AfterFn(err) == IF err # Nil THEN "rollback" ELSE "commit"

\* execTx's return value on the error path.
RollbackReturnOfErrOnly(err, rb) == err

RollbackReturnOfRbErr(err, rb) == IF rb # Nil THEN Errorf(err, rb) ELSE rb

RollbackReturn(err, rb) == IF rb # Nil THEN Errorf(err, rb) ELSE err

\* execTx's return value on the success path: return tx.Commit()
CommitReturnNil(cerr) == Nil

CommitReturn(cerr) == cerr

\* ------------------------------------------------------------------ TransferTx
\* CreateTransferParams{FromAccountID, ToAccountID, Amount}
CreateTransferParams(a) ==
  [FromAccountID |-> a.FromAccountID, ToAccountID |-> a.ToAccountID, Amount |-> a.Amount]

\* CreateEntryParams{AccountID: arg.FromAccountID, Amount: -arg.Amount}
FromEntryParams(a) == [AccountID |-> a.FromAccountID, Amount |-> -a.Amount]

ToEntryParamsNegated(a) == [AccountID |-> a.ToAccountID, Amount |-> -a.Amount]

\* CreateEntryParams{AccountID: arg.ToAccountID, Amount: arg.Amount}
ToEntryParams(a) == [AccountID |-> a.ToAccountID, Amount |-> a.Amount]

\* An adjustment landing on the account after the one it is meant for.
AdjustNextAccount(id, amount, field) ==
  [ID |-> (id % NumAccounts) + 1, Amount |-> amount, Field |-> field]

\* One balance adjustment of addMoney, and the result field its row goes to.
Adjust(id, amount, field) == [ID |-> id, Amount |-> amount, Field |-> field]

AddMoneyFromFirst(a) ==
  << Adjust(a.FromAccountID, -a.Amount, "FromAccount"),
     Adjust(a.ToAccountID, a.Amount, "ToAccount") >>

\* Both accounts credited with the amount.
AddMoneyBothCredited(a) ==
  IF a.FromAccountID < a.ToAccountID
    THEN << Adjust(a.FromAccountID, a.Amount, "FromAccount"),
            Adjust(a.ToAccountID, a.Amount, "ToAccount") >>
    ELSE << Adjust(a.ToAccountID, a.Amount, "ToAccount"),
            Adjust(a.FromAccountID, a.Amount, "FromAccount") >>

AddMoneyResultSwapped(a) ==
  IF a.FromAccountID < a.ToAccountID
    THEN << Adjust(a.FromAccountID, -a.Amount, "FromAccount"),
            Adjust(a.ToAccountID, a.Amount, "ToAccount") >>
    ELSE << Adjust(a.ToAccountID, a.Amount, "FromAccount"),
            Adjust(a.FromAccountID, -a.Amount, "ToAccount") >>

\* The two balance adjustments in the order TransferTx has addMoney issue them.
AddMoneyOrder(a) ==
  IF a.FromAccountID < a.ToAccountID
    THEN << Adjust(a.FromAccountID, -a.Amount, "FromAccount"),
            Adjust(a.ToAccountID, a.Amount, "ToAccount") >>
    ELSE << Adjust(a.ToAccountID, a.Amount, "ToAccount"),
            Adjust(a.FromAccountID, -a.Amount, "FromAccount") >>

\* ------------------------------------------------------------------ queries
NewBalanceSet(balance, amount) == amount

\* AddAccountBalance: SET balance = balance + sqlc.arg(amount)
NewBalance(balance, amount) == balance + amount

\* The balance of row id as a statement on handle h reads it: its own
\* transaction's version when it wrote the row, the committed one otherwise.
CurrentBalance(h, id) ==
  IF h # 0 /\ lock[id] = h THEN txBalance[h][id] ELSE accounts[id].Balance

\* The state before any of the calls in S is made.
InitOf(S) ==
  /\ accounts = [id \in AccountIDs |-> StartAccount(id)]
  /\ transfers = {}
  /\ entries = {}
  /\ transferSeq = 0
  /\ entrySeq = 0
  /\ lock = [id \in AccountIDs |-> 0]
  /\ txTransfers = [t \in S |-> {}]
  /\ txEntries = [t \in S |-> {}]
  /\ txBalance = [t \in S |-> [id \in AccountIDs |-> 0]]
  /\ pc = [t \in S |-> "idle"]
  /\ arg = [t \in S |-> ZeroParams]
  /\ result = [t \in S |-> ZeroResult]
  /\ fnErr = [t \in S |-> NotCalled]
  /\ rbErr = [t \in S |-> NotCalled]
  /\ commitErr = [t \in S |-> NotCalled]
  /\ ret = [t \in S |-> NotCalled]
  /\ calls = [t \in S |-> << >>]
  /\ cancelled = [t \in S |-> FALSE]
  /\ http = [r \in Requests |-> NoRequest]

Init == InitOf(Txs)

\* A ctx that is never cancelled, as context.Background() is.
CtxBackgroundDone(t) == FALSE

\* The ctx of call t, which TransferTx hands to execTx, execTx to BeginTx and
\* the unit of work to every q call, is done.
CtxDone(t) == cancelled[t]

\* What a q call of call t can fail with: once the ctx is done the call in
\* flight and every later one return the ctx's error.
StepErrsOf(t) == IF CtxDone(t) THEN {ErrCanceled} ELSE StepErrs

\* What tx.Commit of call t can fail with: once the ctx is done it commits
\* nothing and returns the ctx's error, or ErrTxDone when the transaction was
\* rolled back on the cancellation already.
CommitErrsOf(t) == IF CtxDone(t) THEN {ErrCanceled, ErrTxDone} ELSE CommitErrs

\* The unit of work going from the debit entry straight to the balances.
StepAfterSkippingToEntry(step) ==
  CASE step = "createTransfer" -> "createEntry1"
    [] step = "createEntry1" -> "addMoney1"
    [] step = "createEntry2" -> "addMoney1"
    [] step = "addMoney1" -> "addMoney2"

\* The statement of the unit of work that follows statement step, when step
\* returned no error: the transfer, the debit entry, the credit entry, then
\* the two balance adjustments.
StepAfter(step) ==
  CASE step = "createTransfer" -> "createEntry1"
    [] step = "createEntry1" -> "createEntry2"
    [] step = "createEntry2" -> "addMoney1"
    [] step = "addMoney1" -> "addMoney2"

\* The unit of work returns err to execTx.
FnReturns(t, err) ==
  /\ fnErr' = [fnErr EXCEPT ![t] = err]
  /\ pc' = [pc EXCEPT ![t] = AfterFn(err)]

\* An execTx that goes on to the unit of work whatever BeginTx returned.
AfterBeginIgnoringErr(err) == "createTransfer"

\* tx, err := store.db.BeginTx(ctx, nil); if err != nil { return err }:
\* where execTx stands once BeginTx has returned err.
AfterBegin(err) == IF err # Nil THEN "done" ELSE "createTransfer"

\* TransferTx is called with params a of inputs; execTx begins the transaction.
BeginTxWith(t, inputs) ==
  /\ pc[t] = "idle"
  /\ \E a \in inputs : arg' = [arg EXCEPT ![t] = a]
  /\ calls' = Logged(t, "BeginTx", 0, 0)
  /\ \/ /\ pc' = [pc EXCEPT ![t] = AfterBegin(Nil)]
        /\ UNCHANGED ret
     \/ \E e \in BeginErrs :
          /\ pc' = [pc EXCEPT ![t] = AfterBegin(e)]
          /\ ret' = [ret EXCEPT ![t] = e]
  /\ UNCHANGED <<accounts, transfers, entries, transferSeq, entrySeq, lock,
                 txTransfers, txEntries, txBalance, result, fnErr, rbErr, commitErr,
                 cancelled, http>>

\* A call between existing accounts with an amount above zero.
BeginTx(t) == BeginTxWith(t, TransferTxParams)

\* Call 1 comes with any params (an account id no row has, an amount of zero
\* or less), beside the other calls between existing accounts.
BeginTxAny(t) ==
  BeginTxWith(t, IF t = 1 THEN AnyTransferTxParams ELSE TransferTxParams)

\* INSERT INTO transfers ... RETURNING * on handle h.
InsertTransfer(h, row) ==
  IF h = 0
    THEN transfers' = transfers \cup {row} /\ UNCHANGED txTransfers
    ELSE txTransfers' = [txTransfers EXCEPT ![h] = @ \cup {row}] /\ UNCHANGED transfers

\* INSERT INTO entries ... RETURNING * on handle h.
InsertEntry(h, row) ==
  IF h = 0
    THEN entries' = entries \cup {row} /\ UNCHANGED txEntries
    ELSE txEntries' = [txEntries EXCEPT ![h] = @ \cup {row}] /\ UNCHANGED entries

\* result.Transfer, err = q.CreateTransfer(...)
CreateTransfer(t) ==
  /\ pc[t] = "createTransfer"
  /\ calls' = Logged(t, "CreateTransfer", 0, Q(t))
  /\ \/ LET p == CreateTransferParams(arg[t])
            row == [ID |-> transferSeq + 1, FromAccountID |-> p.FromAccountID,
                    ToAccountID |-> p.ToAccountID, Amount |-> p.Amount]
        IN /\ ~CtxDone(t)
           /\ transferSeq' = transferSeq + 1
           /\ InsertTransfer(Q(t), row)
           /\ result' = [result EXCEPT ![t].Transfer = row]
           /\ pc' = [pc EXCEPT ![t] = StepAfter("createTransfer")]
           /\ UNCHANGED fnErr
     \/ \E e \in StepErrsOf(t) :
          /\ FnReturns(t, e)
          /\ UNCHANGED <<transferSeq, transfers, txTransfers, result>>
  /\ UNCHANGED <<accounts, entries, entrySeq, lock, txEntries, txBalance, arg,
                 rbErr, commitErr, ret, cancelled, http>>

\* q.CreateEntry(ctx, p), its row stored in result[field].
CreateEntry(t, p, field, next) ==
  /\ calls' = Logged(t, "CreateEntry", p.AccountID, Q(t))
  /\ \/ LET row == [ID |-> entrySeq + 1, AccountID |-> p.AccountID, Amount |-> p.Amount]
        IN /\ ~CtxDone(t)
           /\ entrySeq' = entrySeq + 1
           /\ InsertEntry(Q(t), row)
           /\ result' = [result EXCEPT ![t][field] = row]
           /\ pc' = [pc EXCEPT ![t] = next]
           /\ UNCHANGED fnErr
     \/ \E e \in StepErrsOf(t) :
          /\ FnReturns(t, e)
          /\ UNCHANGED <<entrySeq, entries, txEntries, result>>
  /\ UNCHANGED <<accounts, transfers, transferSeq, lock, txTransfers, txBalance,
                 arg, rbErr, commitErr, ret, cancelled, http>>

\* result.FromEntry, err = q.CreateEntry(... -arg.Amount)
CreateFromEntry(t) ==
  /\ pc[t] = "createEntry1"
  /\ CreateEntry(t, FromEntryParams(arg[t]), "FromEntry", StepAfter("createEntry1"))

\* result.ToEntry, err = q.CreateEntry(... arg.Amount)
CreateToEntry(t) ==
  /\ pc[t] = "createEntry2"
  /\ CreateEntry(t, ToEntryParams(arg[t]), "ToEntry", StepAfter("createEntry2"))

\* A read-then-write update: the new balance is computed from the balance
\* the account had when the calls began, not from the row as it is now.
AddAccountBalanceRowStale(h, id, amount) ==
  [accounts[id] EXCEPT !.Balance = StartBalance(id) + amount]

\* The row AddAccountBalance returns on handle h:
\* UPDATE accounts SET balance = balance + amount WHERE id = id RETURNING *
AddAccountBalanceRow(h, id, amount) ==
  [accounts[id] EXCEPT !.Balance = NewBalance(CurrentBalance(h, id), amount)]

\* The UPDATE writing row on handle h. The statement waits while another
\* transaction holds the row's lock; inside a transaction it keeps the lock
\* until the transaction ends.
UpdateBalance(h, id, row) ==
  /\ lock[id] \in {0, h}
  /\ IF h = 0
       THEN /\ accounts' = [accounts EXCEPT ![id] = row]
            /\ UNCHANGED <<lock, txBalance>>
       ELSE /\ lock' = [lock EXCEPT ![id] = h]
            /\ txBalance' = [txBalance EXCEPT ![h][id] = row.Balance]
            /\ UNCHANGED accounts

\* One q.AddAccountBalance call of addMoney: adjustment adj of call t. The
\* statement is :one: when no row has the id it updates nothing, takes no lock
\* and returns sql.ErrNoRows.
AddAccountBalance(t, adj, last) ==
  /\ calls' = Logged(t, "AddAccountBalance", adj.ID, Q(t))
  /\ \/ /\ ~CtxDone(t)
        /\ IF adj.ID \in AccountIDs
          THEN LET row == AddAccountBalanceRow(Q(t), adj.ID, adj.Amount)
               IN /\ UpdateBalance(Q(t), adj.ID, row)
                  /\ result' = [result EXCEPT ![t][adj.Field] = row]
                  /\ IF last
                       THEN FnReturns(t, Nil)
                       ELSE /\ pc' = [pc EXCEPT ![t] = StepAfter("addMoney1")]
                            /\ UNCHANGED fnErr
          ELSE /\ FnReturns(t, ErrNoRows)
               /\ UNCHANGED <<accounts, lock, txBalance, result>>
     \/ \E e \in StepErrsOf(t) :
          /\ FnReturns(t, e)
          /\ UNCHANGED <<accounts, lock, txBalance, result>>
  /\ UNCHANGED <<transfers, entries, transferSeq, entrySeq, txTransfers,
                 txEntries, arg, rbErr, commitErr, ret, cancelled, http>>

\* addMoney: account1, err = q.AddAccountBalance(accountID1, amount1)
AddMoneyFirst(t) ==
  /\ pc[t] = "addMoney1"
  /\ AddAccountBalance(t, AddMoneyOrder(arg[t])[1], FALSE)

\* addMoney: account2, err = q.AddAccountBalance(accountID2, amount2)
AddMoneySecond(t) ==
  /\ pc[t] = "addMoney2"
  /\ AddAccountBalance(t, AddMoneyOrder(arg[t])[2], TRUE)

\* The transaction of call t ends: what it wrote and its row locks are dropped.
EndTx(t) ==
  /\ txTransfers' = [txTransfers EXCEPT ![t] = {}]
  /\ txEntries' = [txEntries EXCEPT ![t] = {}]
  /\ txBalance' = [txBalance EXCEPT ![t] = [id \in AccountIDs |-> 0]]
  /\ lock' = [id \in AccountIDs |-> IF lock[id] = t THEN 0 ELSE lock[id]]

\* tx.Rollback() after the unit of work failed.
Rollback(t) ==
  /\ pc[t] = "rollback"
  /\ calls' = Logged(t, "Rollback", 0, t)
  /\ EndTx(t)
  /\ \E rb \in {Nil} \cup RollbackErrs :
       /\ rbErr' = [rbErr EXCEPT ![t] = rb]
       /\ ret' = [ret EXCEPT ![t] = RollbackReturn(fnErr[t], rb)]
  /\ pc' = [pc EXCEPT ![t] = "done"]
  /\ UNCHANGED <<accounts, transfers, entries, transferSeq, entrySeq, arg,
                 result, fnErr, commitErr, cancelled, http>>

\* A commit that leaves the table holding the transaction's rows alone.
PublishedAlone(table, written) == written

\* A table after the commit of a transaction that inserted the rows written:
\* the rows it held, and those.
Published(table, written) == table \cup written

\* return tx.Commit()
Commit(t) ==
  /\ pc[t] = "commit"
  /\ calls' = Logged(t, "Commit", 0, t)
  /\ EndTx(t)
  /\ \/ /\ ~CtxDone(t)
        /\ accounts' = [id \in AccountIDs |->
                          IF lock[id] = t
                            THEN [accounts[id] EXCEPT !.Balance = txBalance[t][id]]
                            ELSE accounts[id]]
        /\ transfers' = Published(transfers, txTransfers[t])
        /\ entries' = Published(entries, txEntries[t])
        /\ commitErr' = [commitErr EXCEPT ![t] = Nil]
        /\ ret' = [ret EXCEPT ![t] = CommitReturn(Nil)]
     \/ \E e \in CommitErrsOf(t) :
          /\ commitErr' = [commitErr EXCEPT ![t] = e]
          /\ ret' = [ret EXCEPT ![t] = CommitReturn(e)]
          /\ UNCHANGED <<accounts, transfers, entries>>
  /\ pc' = [pc EXCEPT ![t] = "done"]
  /\ UNCHANGED <<transferSeq, entrySeq, arg, result, fnErr, rbErr, cancelled, http>>

Next ==
  \E t \in Txs :
    \/ BeginTx(t)
    \/ CreateTransfer(t)
    \/ CreateFromEntry(t)
    \/ CreateToEntry(t)
    \/ AddMoneyFirst(t)
    \/ AddMoneySecond(t)
    \/ Rollback(t)
    \/ Commit(t)

Spec == Init /\ [][Next]_vars

\* The same calls with any params.
NextAny ==
  \E t \in Txs :
    \/ BeginTxAny(t)
    \/ CreateTransfer(t)
    \/ CreateFromEntry(t)
    \/ CreateToEntry(t)
    \/ AddMoneyFirst(t)
    \/ AddMoneySecond(t)
    \/ Rollback(t)
    \/ Commit(t)

SpecAny == Init /\ [][NextAny]_vars

\* The caller cancels the ctx of call t while the call is in progress.
Cancel(t) ==
  /\ pc[t] \notin {"idle", "done"}
  /\ ~cancelled[t]
  /\ cancelled' = [cancelled EXCEPT ![t] = TRUE]
  /\ UNCHANGED <<accounts, transfers, entries, transferSeq, entrySeq, lock,
                 txTransfers, txEntries, txBalance, pc, arg, result, fnErr, rbErr,
                 commitErr, ret, calls, http>>

\* The calls of Next, where the caller of call 1 may cancel it.
NextCancel ==
  \/ Next
  \/ Cancel(1)

SpecCancel == Init /\ [][NextCancel]_vars

\* ------------------------------------------------------------------ a ring of calls
\* NumRingTx concurrent calls around a ring of accounts: call t moves
\* MaxAmount from account t to the next account of the ring: 1 -> 2, 2 -> 3,
\* 3 -> 1.
RingTxs == 1..NumRingTx
RingNext(id) == (id % NumAccounts) + 1
RingParams(t) ==
  { [FromAccountID |-> t, ToAccountID |-> RingNext(t), Amount |-> MaxAmount] }

BeginTxRing(t) == BeginTxWith(t, RingParams(t))

NextRing ==
  \E t \in RingTxs :
    \/ BeginTxRing(t)
    \/ CreateTransfer(t)
    \/ CreateFromEntry(t)
    \/ CreateToEntry(t)
    \/ AddMoneyFirst(t)
    \/ AddMoneySecond(t)
    \/ Rollback(t)
    \/ Commit(t)

SpecRing == InitOf(RingTxs) /\ [][NextRing]_vars

\* ------------------------------------------------------------------ fair runs
\* Calls that move MaxAmount between two different accounts.
LiveParams ==
  {a \in TransferTxParams : a.FromAccountID # a.ToAccountID /\ a.Amount = MaxAmount}

BeginTxLive(t) == BeginTxWith(t, LiveParams)

\* A database step of call t.
StepOf(t) ==
  \/ CreateTransfer(t)
  \/ CreateFromEntry(t)
  \/ CreateToEntry(t)
  \/ AddMoneyFirst(t)
  \/ AddMoneySecond(t)
  \/ Rollback(t)
  \/ Commit(t)

\* A database step of call t that completes: the statement returns without a
\* driver fault (a statement waiting for a row lock cannot), or the
\* transaction ends.
Proceeds(t) ==
  /\ StepOf(t)
  /\ pc[t] \in {"rollback", "commit"} \/ fnErr'[t] \notin StepErrs

NextLive == \E t \in Txs : BeginTxLive(t) \/ StepOf(t)

\* A database step that can complete does complete in the end; a driver
\* fault may strike any step but need not.
SpecLive ==
  /\ Init
  /\ [][NextLive]_vars
  /\ \A t \in Txs : WF_vars(Proceeds(t))

\* ------------------------------------------------------------------ GET /accounts/:id
\* What store.GetAccount(ctx, id) can return on the store's db:
\* SELECT * FROM accounts WHERE id = $1 LIMIT 1, :one. The row and nil, or
\* sql.ErrNoRows when no row has the id, or a driver fault.
GetAccountOutcomes(id) ==
  (IF id \in AccountIDs
     THEN {[row |-> accounts[id], err |-> Nil]}
     ELSE {[row |-> ZeroAccount, err |-> ErrNoRows]})
  \cup {[row |-> ZeroAccount, err |-> e] : e \in StepErrs}

\* A uri binding that accepts every id.
ValidURIAny(id) == TRUE

\* The handler's uri binding: an id below 1 is a bad request.
ValidURI(id) == id >= 1

\* A handler answering every store error alike, as createAccount does.
GetAccountStatusAsCreate(err) ==
  IF err = Nil THEN StatusOK ELSE StatusInternalServerError

\* The status getAccount answers with for what store.GetAccount returned.
GetAccountStatus(err) ==
  IF err = Nil THEN StatusOK
  ELSE IF err = ErrNoRows THEN StatusNotFound
  ELSE StatusInternalServerError

\* The getAccount handler serves request r: GET /accounts/:id.
getAccount(r) ==
  /\ http[r].pc = "idle"
  /\ \E id \in RequestIDs :
       IF ~ValidURI(id)
         THEN http' = [http EXCEPT ![r] =
                [pc |-> "responded", id |-> id, err |-> NotCalled,
                 status |-> StatusBadRequest, body |-> ZeroAccount,
                 store |-> << >>]]
         ELSE \E out \in GetAccountOutcomes(id) :
                http' = [http EXCEPT ![r] =
                  [pc |-> "responded", id |-> id, err |-> out.err,
                   status |-> GetAccountStatus(out.err),
                   body |-> IF out.err = Nil THEN out.row ELSE ZeroAccount,
                   store |-> <<StoreCall("GetAccount", id)>>]]
  /\ UNCHANGED <<accounts, transfers, entries, transferSeq, entrySeq, lock,
                 txTransfers, txEntries, txBalance, pc, arg, result, fnErr, rbErr,
                 commitErr, ret, calls, cancelled>>

NextAPI == \E r \in Requests : getAccount(r)

SpecAPI == Init /\ [][NextAPI]_vars

\* ------------------------------------------------------------------ POST /accounts
\* The JSON bodies a client can post: the owner present or missing, the
\* currency missing, one of the two the binding allows or another one, and a
\* balance, which createAccountRequest has no field for.
createAccountRequest ==
  [owner : {"", "owner"}, currency : {"", "USD", "EUR", "CAD"},
   balance : {0, MaxAmount}]

\* ctx.ShouldBindJSON(&req) with binding:"required" on Owner and
\* binding:"required,oneof=USD EUR" on Currency returns no error.
ShouldBindJSON(req) == req.owner # "" /\ req.currency \in {"USD", "EUR"}

\* A handler that passes on the balance the client sent.
CreateAccountParamsWithBalance(req) ==
  [Owner |-> req.owner, Currency |-> req.currency, Balance |-> req.balance]

\* arg := db.CreateAccountParams{Owner: req.Owner, Currency: req.Currency, Balance: 0}
CreateAccountParams(req) ==
  [Owner |-> req.owner, Currency |-> req.currency, Balance |-> 0]

\* The id the accounts table gives its next row.
NextAccountID == Cardinality(DOMAIN accounts) + 1

\* What store.CreateAccount can return for params a: the inserted row
\* (INSERT INTO accounts (owner, balance, currency) ... RETURNING *), or a
\* driver fault.
CreateAccountOutcomes(a) ==
  {[row |-> [ID |-> NextAccountID, Owner |-> a.Owner, Balance |-> a.Balance,
             Currency |-> a.Currency],
    err |-> Nil]}
  \cup {[row |-> ZeroAccount, err |-> e] : e \in StepErrs}

\* The createAccount handler serves request r: POST /accounts.
createAccount(r) ==
  /\ http[r].pc = "idle"
  /\ \E req \in createAccountRequest :
       IF ~ShouldBindJSON(req)
         THEN /\ http' = [http EXCEPT ![r] =
                   [pc |-> "created", req |-> req, err |-> NotCalled,
                    status |-> StatusBadRequest, body |-> ZeroAccount,
                    store |-> << >>]]
              /\ UNCHANGED accounts
         ELSE \E out \in CreateAccountOutcomes(CreateAccountParams(req)) :
                /\ http' = [http EXCEPT ![r] =
                     [pc |-> "created", req |-> req, err |-> out.err,
                      status |-> IF out.err = Nil THEN StatusOK
                                 ELSE StatusInternalServerError,
                      body |-> out.row,
                      store |-> <<StoreCall("CreateAccount", CreateAccountParams(req))>>]]
                /\ accounts' =
                     IF out.err = Nil
                       THEN [id \in DOMAIN accounts \cup {out.row.ID} |->
                               IF id = out.row.ID THEN out.row ELSE accounts[id]]
                       ELSE accounts
  /\ UNCHANGED <<transfers, entries, transferSeq, entrySeq, lock,
                 txTransfers, txEntries, txBalance, pc, arg, result, fnErr, rbErr,
                 commitErr, ret, calls, cancelled>>

NextCreate == \E r \in Requests : createAccount(r)

SpecCreate == Init /\ [][NextCreate]_vars

\* ------------------------------------------------------------------ reads
\* The rows of a table a statement on handle h sees: the committed rows, and
\* on a transaction's handle the rows that transaction has written.
RowsOn(h, table, written) == IF h = 0 THEN table ELSE table \cup written[h]

\* q.GetTransfer(ctx, id) on handle h: the transfer row under the id, or
\* sql.ErrNoRows.
GetTransfer(h, id) ==
  LET rows == {r \in RowsOn(h, transfers, txTransfers) : r.ID = id}
  IN IF rows = {} THEN [row |-> ZeroTransfer, err |-> ErrNoRows]
     ELSE [row |-> CHOOSE r \in rows : TRUE, err |-> Nil]

\* q.GetEntry(ctx, id) on handle h: the entry row under the id, or
\* sql.ErrNoRows.
GetEntry(h, id) ==
  LET rows == {e \in RowsOn(h, entries, txEntries) : e.ID = id}
  IN IF rows = {} THEN [row |-> ZeroEntry, err |-> ErrNoRows]
     ELSE [row |-> CHOOSE e \in rows : TRUE, err |-> Nil]

\* The rows of a table in the order of their ids: ORDER BY id.
RECURSIVE OrderByID(_)
OrderByID(rows) ==
  IF rows = {} THEN << >>
  ELSE LET first == CHOOSE r \in rows : \A s \in rows : r.ID <= s.ID
       IN <<first>> \o OrderByID(rows \ {first})

\* OFFSET k: the rows after the first k.
Drop(s, k) == IF k >= Len(s) THEN << >> ELSE SubSeq(s, k + 1, Len(s))

\* LIMIT k: the first k rows.
Take(s, k) == IF k >= Len(s) THEN s ELSE SubSeq(s, 1, k)

\* A statement that cuts to the limit before it skips the offset.
PageLimitFirst(s, limit, offset) == Drop(Take(s, limit), offset)

\* LIMIT limit OFFSET offset on the ordered rows s.
Page(s, limit, offset) == Take(Drop(s, offset), limit)

\* The params of the two list queries: limits and offsets from zero up.
ListEntriesParams ==
  [AccountID : AnyAccountIDs, Limit : 0..MaxPage, Offset : 0..MaxPage]

ListTransfersParams ==
  [FromAccountID : AnyAccountIDs, ToAccountID : AnyAccountIDs,
   Limit : 0..MaxPage, Offset : 0..MaxPage]

\* q.ListEntries(ctx, p) on handle h: the entries of account p.AccountID.
ListEntries(h, p) ==
  Page(OrderByID({e \in RowsOn(h, entries, txEntries) : e.AccountID = p.AccountID}),
       p.Limit, p.Offset)

\* q.ListTransfers(ctx, p) on handle h: the transfers from p.FromAccountID to
\* p.ToAccountID.
ListTransfers(h, p) ==
  Page(OrderByID({r \in RowsOn(h, transfers, txTransfers) :
                    r.FromAccountID = p.FromAccountID /\ r.ToAccountID = p.ToAccountID}),
       p.Limit, p.Offset)

\* The accounts the query tests create rows on: the one a test lists and
\* another one.
TestAccountIDs == {id \in AccountIDs : id <= 2}

\* createRandomEntry: testQueries.CreateEntry on the store's own handle.
createRandomEntry(account) ==
  /\ entrySeq + transferSeq < MaxRows
  /\ InsertEntry(0, [ID |-> entrySeq + 1, AccountID |-> account, Amount |-> MaxAmount])
  /\ entrySeq' = entrySeq + 1
  /\ UNCHANGED <<accounts, transfers, transferSeq, lock, txTransfers, txBalance,
                 pc, arg, result, fnErr, rbErr, commitErr, ret, calls, cancelled,
                 http>>

\* createRandomTransfer: testQueries.CreateTransfer on the store's own handle.
createRandomTransfer(firstAccount, secondAccount) ==
  /\ entrySeq + transferSeq < MaxRows
  /\ firstAccount # secondAccount
  /\ InsertTransfer(0, [ID |-> transferSeq + 1, FromAccountID |-> firstAccount,
                        ToAccountID |-> secondAccount, Amount |-> MaxAmount])
  /\ transferSeq' = transferSeq + 1
  /\ UNCHANGED <<accounts, entries, entrySeq, lock, txEntries, txBalance,
                 pc, arg, result, fnErr, rbErr, commitErr, ret, calls, cancelled,
                 http>>

NextQueries ==
  \/ \E account \in TestAccountIDs : createRandomEntry(account)
  \/ \E a, b \in TestAccountIDs : createRandomTransfer(a, b)

SpecQueries == Init /\ [][NextQueries]_vars

\* ------------------------------------------------------------------ vocabulary
IsErr(e) == e \notin {Nil, NotCalled}

Done(t) == pc[t] = "done"

\* Call t has returned and its transaction was committed.
Committed(t) == Done(t) /\ commitErr[t] = Nil

\* The unit of work of call t failed and the rollback succeeded.
RolledBack(t) == Done(t) /\ IsErr(fnErr[t]) /\ rbErr[t] = Nil

\* A valid transfer: distinct accounts, positive amount.
Valid(a) == a.FromAccountID # a.ToAccountID /\ a.Amount > 0

\* What a transfer with params a adds to the balance of account id.
DeltaOf(a, id) ==
  (IF id = a.ToAccountID THEN a.Amount ELSE 0)
    - (IF id = a.FromAccountID THEN a.Amount ELSE 0)

RECURSIVE SumDelta(_, _)
SumDelta(S, id) ==
  IF S = {} THEN 0
  ELSE LET t == CHOOSE u \in S : TRUE
       IN DeltaOf(arg[t], id) + SumDelta(S \ {t}, id)

\* The committed rows that call t's result names.
TransferRowsOf(t) == {r \in transfers : r.ID = result[t].Transfer.ID}

EntryRowsOf(t) ==
  {e \in entries : e.ID \in {result[t].FromEntry.ID, result[t].ToEntry.ID}}

\* The account row the pending AddAccountBalance of call t updates; 0 when
\* call t is not at a balance adjustment.
Pending(t) ==
  LET id == IF pc[t] = "addMoney1" THEN AddMoneyOrder(arg[t])[1].ID
            ELSE IF pc[t] = "addMoney2" THEN AddMoneyOrder(arg[t])[2].ID
            ELSE 0
  IN IF id \in AccountIDs THEN id ELSE 0

\* Call t's pending adjustment waits for a row lock another transaction holds.
Blocked(t) == Pending(t) # 0 /\ lock[Pending(t)] \notin {0, t}

WaitsFor(t, u) == t # u /\ Pending(t) # 0 /\ lock[Pending(t)] = u

RECURSIVE Reaches(_, _, _)
Reaches(t, u, n) ==
  /\ n > 0
  /\ \/ WaitsFor(t, u)
     \/ \E v \in Txs : WaitsFor(t, v) /\ Reaches(v, u, n - 1)

\* Some calls wait for each other's row locks in a circle.
WaitCycle == \E t \in Txs : Reaches(t, t, NumTx)

\* The calls of call t to one database operation, in order.
CallsOf(t, op) == SelectSeq(calls[t], LAMBDA c : c.op = op)

\* Text sub occurs in text s.
Contains(s, sub) ==
  \E i \in 1..(Len(s) - Len(sub) + 1) : SubSeq(s, i, i + Len(sub) - 1) = sub

Min(a, b) == IF a < b THEN a ELSE b

Max(a, b) == IF a < b THEN b ELSE a

\* Every call has been made, each moving amt between accounts A and B, in
\* either direction.
SamePair(A, B, amt) ==
  /\ A # B
  /\ \A t \in Txs :
       /\ pc[t] # "idle"
       /\ arg[t].Amount = amt
       /\ <<arg[t].FromAccountID, arg[t].ToAccountID>> \in {<<A, B>>, <<B, A>>}

\* Every call has been made, each moving amt from account A to account B.
SameDirection(A, B, amt) ==
  /\ A # B
  /\ \A t \in Txs :
       /\ pc[t] # "idle"
       /\ arg[t] = [FromAccountID |-> A, ToAccountID |-> B, Amount |-> amt]

AllSucceeded == \A t \in Txs : Done(t) /\ ret[t] = Nil

\* The balance deltas call t sees in its result, against the starting balances.
FromDelta(t) == StartBalance(arg[t].FromAccountID) - result[t].FromAccount.Balance

ToDelta(t) == result[t].ToAccount.Balance - StartBalance(arg[t].ToAccountID)

\* ------------------------------------------------------------------ claims

\* C1: when the unit of work of a TransferTx call failed at some step and the
\* rollback succeeded, nothing of the call is in the store: no transfer row and
\* no entry row of the call is committed, and every account balance is what
\* the other, committed, calls alone have made it.
C1_RolledBackLeavesNothing ==
  \A t \in Txs :
    RolledBack(t) =>
      /\ TransferRowsOf(t) = {}
      /\ EntryRowsOf(t) = {}
      /\ \A id \in AccountIDs :
           accounts[id].Balance
             = StartBalance(id) + SumDelta({u \in Txs \ {t} : Committed(u)}, id)

\* A call failed at its last step, the second balance adjustment, after the
\* transfer row, both entries and the first adjustment had been made, and was
\* rolled back.
C1_Witness ==
  \E t \in Txs :
    /\ RolledBack(t)
    /\ Len(calls[t]) = 7
    /\ result[t].Transfer.ID # 0
    /\ result[t].FromEntry.ID # 0
    /\ result[t].ToEntry.ID # 0
    /\ result[t].FromAccount.ID # 0 \/ result[t].ToAccount.ID # 0

\* C2: the commit of a valid transfer (distinct accounts, positive amount)
\* lowers the committed balance of the source by exactly the amount and
\* raises that of the destination by exactly the amount.
C2_CommitMovesAmount ==
  [][\A t \in Txs :
       (pc[t] = "commit" /\ pc'[t] = "done" /\ commitErr'[t] = Nil /\ Valid(arg[t]))
         => /\ accounts[arg[t].FromAccountID].Balance
                 - accounts'[arg[t].FromAccountID].Balance = arg[t].Amount
            /\ accounts'[arg[t].ToAccountID].Balance
                 - accounts[arg[t].ToAccountID].Balance = arg[t].Amount]_vars

\* A valid transfer of the largest amount has committed, alone so far.
C2_Witness ==
  \E t \in Txs :
    /\ Committed(t)
    /\ Valid(arg[t])
    /\ arg[t].Amount = MaxAmount
    /\ accounts[arg[t].FromAccountID].Balance
         = StartBalance(arg[t].FromAccountID) - MaxAmount
    /\ accounts[arg[t].ToAccountID].Balance
         = StartBalance(arg[t].ToAccountID) + MaxAmount

\* C3: a committed transfer has exactly one transfer row, with the source,
\* destination and amount given, and exactly two entry rows, -amount on the
\* source and +amount on the destination, summing to zero; a call that has not
\* committed has none; so there are as many transfer rows as committed calls
\* and twice as many entry rows.
C3_OneTransferTwoEntries ==
  /\ \A t \in Txs :
       Committed(t) =>
         /\ result[t].Transfer.ID # 0
         /\ TransferRowsOf(t)
              = {[ID |-> result[t].Transfer.ID,
                  FromAccountID |-> arg[t].FromAccountID,
                  ToAccountID |-> arg[t].ToAccountID,
                  Amount |-> arg[t].Amount]}
         /\ result[t].FromEntry.ID # result[t].ToEntry.ID
         /\ EntryRowsOf(t)
              = {[ID |-> result[t].FromEntry.ID,
                  AccountID |-> arg[t].FromAccountID, Amount |-> -arg[t].Amount],
                 [ID |-> result[t].ToEntry.ID,
                  AccountID |-> arg[t].ToAccountID, Amount |-> arg[t].Amount]}
         /\ result[t].FromEntry.Amount + result[t].ToEntry.Amount = 0
  /\ \A t \in Txs :
       ~Committed(t) => TransferRowsOf(t) = {} /\ EntryRowsOf(t) = {}
  /\ Cardinality(transfers) = Cardinality({t \in Txs : Committed(t)})
  /\ Cardinality(entries) = 2 * Cardinality(transfers)

\* Every call has returned: some committed, some failed.
C3_Witness ==
  /\ \A t \in Txs : Done(t)
  /\ \E t \in Txs : Committed(t)
  /\ \E t \in Txs : IsErr(ret[t]) /\ result[t].ToEntry.ID # 0
  /\ Cardinality(entries) = 2

\* C4: when every call moves the same amount between the same two accounts A
\* and B, in either direction, no calls ever wait for each other's row locks
\* in a circle and, while calls are unfinished, one of them is not blocked; and
\* when as many calls went A->B as B->A and all have returned without error,
\* the balances of A and B are what they were before the run.
C4_NoDeadlockOnPair ==
  \A A \in AccountIDs, B \in AccountIDs, amt \in Amounts :
    SamePair(A, B, amt) =>
      /\ ~WaitCycle
      /\ (\E t \in Txs : ~Done(t)) => (\E t \in Txs : ~Done(t) /\ ~Blocked(t))
      /\ ( /\ AllSucceeded
           /\ Cardinality({t \in Txs : arg[t].FromAccountID = A})
                = Cardinality({t \in Txs : arg[t].FromAccountID = B}) )
           => /\ accounts[A].Balance = StartBalance(A)
              /\ accounts[B].Balance = StartBalance(B)

\* Half the calls went A->B and half B->A, all have committed, and the
\* balances are back where they started.
C4_Witness ==
  \E A \in AccountIDs, B \in AccountIDs :
    /\ SamePair(A, B, MaxAmount)
    /\ AllSucceeded
    /\ \E t \in Txs : arg[t].FromAccountID = A
    /\ Cardinality({t \in Txs : arg[t].FromAccountID = A})
         = Cardinality({t \in Txs : arg[t].FromAccountID = B})
    /\ accounts[A].Balance = StartBalance(A)
    /\ Cardinality(transfers) = NumTx

\* C5: a call between two distinct accounts i < j makes its balance adjustment
\* on i before its adjustment on j, whichever of the two is the source: the
\* first AddAccountBalance it calls is on i and the second is on j.
C5_LowerIdFirst ==
  \A t \in Txs :
    arg[t].FromAccountID # arg[t].ToAccountID =>
      LET adj == CallsOf(t, "AddAccountBalance")
          i == Min(arg[t].FromAccountID, arg[t].ToAccountID)
          j == Max(arg[t].FromAccountID, arg[t].ToAccountID)
      IN /\ Len(adj) <= 2
         /\ Len(adj) >= 1 => adj[1].id = i
         /\ Len(adj) = 2 => adj[2].id = j

\* A call whose source has the higher id has made both adjustments:
\* destination first.
C5_Witness ==
  \E t \in Txs :
    /\ arg[t].FromAccountID > arg[t].ToAccountID
    /\ Len(CallsOf(t, "AddAccountBalance")) = 2
    /\ result[t].FromAccount.ID = arg[t].FromAccountID
    /\ result[t].ToAccount.ID = arg[t].ToAccountID

\* C6: when every one of the n calls moves the same amount from A to B and all
\* have returned without error, the balances are A - n*amount and B + n*amount,
\* and in each call's result the source-side delta equals the destination-side
\* delta and is k*amount for a k in 1..n, the k of the calls pairwise distinct.
C6_SameDirectionResults ==
  \A A \in AccountIDs, B \in AccountIDs, amt \in Amounts :
    (SameDirection(A, B, amt) /\ AllSucceeded) =>
      /\ accounts[A].Balance = StartBalance(A) - NumTx * amt
      /\ accounts[B].Balance = StartBalance(B) + NumTx * amt
      /\ \A t \in Txs :
           /\ FromDelta(t) = ToDelta(t)
           /\ \E k \in 1..NumTx : FromDelta(t) = k * amt
      /\ \A t \in Txs, u \in Txs : t # u => FromDelta(t) # FromDelta(u)

\* All calls moved the largest amount from a higher-numbered account to a
\* lower-numbered one and have committed.
C6_Witness ==
  \E A \in AccountIDs, B \in AccountIDs :
    /\ A > B
    /\ SameDirection(A, B, MaxAmount)
    /\ AllSucceeded
    /\ \E t \in Txs : FromDelta(t) = NumTx * MaxAmount

\* C7: in every state the committed store shows of each call either the
\* transfer row, both entry rows and both balance adjustments, or nothing:
\* a call is visible when its transfer row is committed; a visible call has
\* its two entries committed, an invisible one none, and every balance is the
\* starting balance plus the full adjustments of exactly the visible calls.
C7_AllOrNothingVisible ==
  /\ \A t \in Txs :
       \/ Cardinality(TransferRowsOf(t)) = 1 /\ Cardinality(EntryRowsOf(t)) = 2
       \/ TransferRowsOf(t) = {} /\ EntryRowsOf(t) = {}
  /\ \A id \in AccountIDs :
       accounts[id].Balance
         = StartBalance(id) + SumDelta({t \in Txs : TransferRowsOf(t) # {}}, id)

\* One call has committed while another, on the same accounts, has made four
\* of its five writes and not yet committed.
C7_Witness ==
  \E t \in Txs, u \in Txs :
    /\ Committed(u)
    /\ pc[t] = "addMoney2"
    /\ arg[t].FromAccountID = arg[u].FromAccountID
    /\ \E id \in AccountIDs : lock[id] = t /\ txBalance[t][id] # accounts[id].Balance
    /\ txTransfers[t] # {}

\* C8: when the unit of work returned no error, execTx never rolls back, and
\* it commits once and returns what the commit returned: nil, or the commit's
\* error as it is.
C8_SuccessCommits ==
  \A t \in Txs :
    fnErr[t] = Nil =>
      /\ CallsOf(t, "Rollback") = << >>
      /\ rbErr[t] = NotCalled
      /\ pc[t] \in {"commit", "done"}
      /\ Done(t) => /\ Len(CallsOf(t, "Commit")) = 1
                    /\ commitErr[t] \in {Nil} \cup CommitErrs
                    /\ ret[t] = commitErr[t]

\* A call whose unit of work succeeded got an error from the commit.
C8_Witness ==
  \E t \in Txs : Done(t) /\ fnErr[t] = Nil /\ commitErr[t] \in CommitErrs

\* C9: when the unit of work returned an error e, execTx never commits, rolls
\* back exactly once, and when the rollback succeeds returns e itself.
C9_FailureRollsBack ==
  \A t \in Txs :
    IsErr(fnErr[t]) =>
      /\ CallsOf(t, "Commit") = << >>
      /\ commitErr[t] = NotCalled
      /\ pc[t] \in {"rollback", "done"}
      /\ Len(CallsOf(t, "Rollback")) = (IF Done(t) THEN 1 ELSE 0)
      /\ (Done(t) /\ rbErr[t] = Nil) => ret[t] = fnErr[t]

\* A call's unit of work failed and the rollback succeeded.
C9_Witness ==
  \E t \in Txs :
    /\ Done(t)
    /\ fnErr[t] \in StepErrs
    /\ rbErr[t] = Nil
    /\ Len(CallsOf(t, "Rollback")) = 1

\* C10: when the unit of work returned an error e and the rollback returned
\* an error r, the error execTx returns carries the text of e and the text of
\* r, and is none of the plain errors: it differs from e and from what any
\* call returns whose rollback succeeded.
C10_CompositeError ==
  \A t \in Txs :
    (Done(t) /\ IsErr(fnErr[t]) /\ IsErr(rbErr[t])) =>
      /\ Contains(ret[t], fnErr[t])
      /\ Contains(ret[t], rbErr[t])
      /\ ret[t] # fnErr[t]
      /\ ret[t] \notin PlainErrs \cup {Nil}
      /\ \A u \in Txs : RolledBack(u) => ret[u] # ret[t]

\* One call failed and its rollback failed, while another call failed the
\* same way and was rolled back.
C10_Witness ==
  \E t \in Txs, u \in Txs :
    /\ Done(t) /\ IsErr(fnErr[t]) /\ IsErr(rbErr[t])
    /\ RolledBack(u)
    /\ fnErr[u] = fnErr[t]

\* C11: in every reachable committed state every account's balance is at least
\* zero (the accounts start with balances of at least zero).
C11_BalanceNeverNegative ==
  \A id \in AccountIDs : accounts[id].Balance >= 0

\* The calls that committed.
CommittedTxs == {u \in Txs : Committed(u)}

C13_InvalidRejectedBeforeTx ==
  \A t \in Txs :
    (pc[t] # "idle" /\ ~Valid(arg[t])) =>
      /\ calls[t] = << >>
      /\ Done(t) /\ IsErr(ret[t])

\* Call t is inside the unit of work: a repository call is next.
InSteps(t) ==
  pc[t] \in {"createTransfer", "createEntry1", "createEntry2", "addMoney1", "addMoney2"}

\* Once call t is cancelled none of its effects is or becomes visible, and
\* when it has returned it returned an error with its transaction ended.
CancelledLeavesNothing(t) ==
  /\ commitErr[t] # Nil
  /\ TransferRowsOf(t) = {}
  /\ EntryRowsOf(t) = {}
  /\ \A id \in AccountIDs :
       accounts[id].Balance = StartBalance(id) + SumDelta(CommittedTxs \ {t}, id)
  /\ Done(t) =>
       /\ IsErr(ret[t])
       /\ Len(CallsOf(t, "Rollback")) + Len(CallsOf(t, "Commit")) = 1
       /\ txTransfers[t] = {} /\ txEntries[t] = {}
       /\ \A id \in AccountIDs : lock[id] # t

\* Once call t is cancelled the repository call in flight fails with the
\* ctx's error, and no repository call stores a row in the result any more.
CancelledCallsFail(t) ==
  /\ result'[t] = result[t]
  /\ (InSteps(t) /\ pc'[t] # pc[t]) =>
       (fnErr'[t] = ErrCanceled /\ pc'[t] = "rollback")

\* C14: when the ctx of a call is cancelled while the call is in progress,
\* the repository call in flight and every later one fail, the transaction is
\* rolled back, the call returns an error, and none of the transfer's effects
\* is persisted.
C14_CancelRollsBack ==
  /\ [](\A t \in Txs : cancelled[t] => CancelledLeavesNothing(t))
  /\ [][\A t \in Txs : cancelled[t] => CancelledCallsFail(t)]_vars

\* A call was cancelled after it had inserted its rows and adjusted a balance
\* inside its transaction; it has returned.
C14_Witness ==
  \E t \in Txs :
    /\ cancelled[t]
    /\ Done(t)
    /\ result[t].ToEntry.ID # 0
    /\ Len(CallsOf(t, "AddAccountBalance")) = 2
    /\ fnErr[t] = ErrCanceled

\* C15: the result of a successful call holds the Transfer row, the debit and
\* the credit Entry rows and the two Account rows as they are after the
\* adjustments, FromAccount being the source and ToAccount the destination
\* whichever id is the lower: FromEntry carries -amount on the source, ToEntry
\* +amount on the destination. Before the commit the Account rows carry the
\* balances the transaction wrote; after it all three rows are in the tables.
C15_ResultPopulated ==
  \A t \in Txs :
    LET a == arg[t]
        r == result[t]
    IN (pc[t] = "commit" \/ (Done(t) /\ ret[t] = Nil)) =>
         /\ r.Transfer.ID > 0
         /\ r.Transfer.FromAccountID = a.FromAccountID
         /\ r.Transfer.ToAccountID = a.ToAccountID
         /\ r.Transfer.Amount = a.Amount
         /\ r.FromEntry.ID > 0 /\ r.ToEntry.ID > 0 /\ r.FromEntry.ID # r.ToEntry.ID
         /\ r.FromEntry.AccountID = a.FromAccountID
         /\ r.FromEntry.Amount = -a.Amount
         /\ r.ToEntry.AccountID = a.ToAccountID
         /\ r.ToEntry.Amount = a.Amount
         /\ r.FromAccount.ID = a.FromAccountID
         /\ r.ToAccount.ID = a.ToAccountID
         /\ pc[t] = "commit" =>
              /\ r.FromAccount.Balance = txBalance[t][a.FromAccountID]
              /\ a.FromAccountID # a.ToAccountID =>
                   r.ToAccount.Balance = txBalance[t][a.ToAccountID]
         /\ Done(t) =>
              /\ r.Transfer \in transfers
              /\ r.FromEntry \in entries
              /\ r.ToEntry \in entries

\* Two calls succeeded, one from the lower id to the higher and one from the
\* higher to the lower.
C15_Witness ==
  \E t \in Txs, u \in Txs :
    /\ Done(t) /\ ret[t] = Nil /\ arg[t].FromAccountID < arg[t].ToAccountID
    /\ Done(u) /\ ret[u] = Nil /\ arg[u].FromAccountID > arg[u].ToAccountID

\* Where a transfer attempt stands: "NotStarted" before the call (and after a
\* call whose BeginTx failed, which never had a transaction), "Started" once
\* the transaction is begun, "StepsExecuting" from the first repository call
\* until execTx returns, then "Committed" when tx.Commit returned nil and
\* "RolledBack" otherwise.
Phase(t) ==
  IF pc[t] = "idle" \/ (Done(t) /\ Len(calls[t]) = 1) THEN "NotStarted"
  ELSE IF Done(t) THEN (IF commitErr[t] = Nil THEN "Committed" ELSE "RolledBack")
  ELSE IF Len(calls[t]) = 1 THEN "Started"
  ELSE "StepsExecuting"

\* The moves the state machine allows.
PhaseMoves ==
  { <<"NotStarted", "Started">>,
    <<"Started", "StepsExecuting">>,
    <<"StepsExecuting", "StepsExecuting">>,
    <<"StepsExecuting", "Committed">>,
    <<"StepsExecuting", "RolledBack">> }

\* What the committed tables show of call t: everything or nothing.
ShowsAll(t) == Cardinality(TransferRowsOf(t)) = 1 /\ Cardinality(EntryRowsOf(t)) = 2
ShowsNothing(t) == TransferRowsOf(t) = {} /\ EntryRowsOf(t) = {}

\* Only a committed attempt shows, and it shows whole; the balances are those
\* the committed attempts made.
PhaseObservable ==
  /\ \A t \in Txs :
       /\ Phase(t) = "Committed" => ShowsAll(t)
       /\ Phase(t) # "Committed" => ShowsNothing(t)
       /\ Phase(t) = "Committed" => Len(CallsOf(t, "Rollback")) = 0
       /\ Phase(t) = "RolledBack" =>
            Len(CallsOf(t, "Rollback")) + Len(CallsOf(t, "Commit")) = 1
  /\ \A id \in AccountIDs :
       accounts[id].Balance
         = StartBalance(id) + SumDelta({t \in Txs : Phase(t) = "Committed"}, id)

\* An attempt moves along PhaseMoves only, and once it is Committed or
\* RolledBack nothing of it changes any more.
PhaseStep(t) ==
  /\ Phase(t)' # Phase(t) => <<Phase(t), Phase(t)'>> \in PhaseMoves
  /\ Phase(t) \in {"Committed", "RolledBack"} =>
       /\ Phase(t)' = Phase(t)
       /\ UNCHANGED <<pc[t], ret[t], result[t], calls[t], fnErr[t], rbErr[t], commitErr[t]>>
       /\ TransferRowsOf(t)' = TransferRowsOf(t)
       /\ EntryRowsOf(t)' = EntryRowsOf(t)

\* C16: a transfer attempt goes Started -> StepsExecuting -> Committed or
\* RolledBack; the two are terminal and an attempt is never both; what other
\* transactions can observe of an attempt is either the whole committed
\* transfer or nothing.
C16_StateMachine ==
  /\ []PhaseObservable
  /\ [][\A t \in Txs : PhaseStep(t)]_vars

\* One attempt ended Committed and another RolledBack after some of its steps
\* had run.
C16_Witness ==
  \E t \in Txs, u \in Txs :
    /\ Phase(t) = "Committed"
    /\ Phase(u) = "RolledBack"
    /\ Len(calls[u]) > 3

\* The two accounts call t touches.
PairOf(t) == {arg[t].FromAccountID, arg[t].ToAccountID}

\* C17: two calls in progress that touch the same pair of accounts never wait
\* for each other's row locks: when one waits for a lock the other holds, the
\* other is not waiting for a lock the first holds, so no circle of waits
\* closes between them.
C17_NoWaitCycleOnPair ==
  \A t \in Txs, u \in Txs :
    (t # u /\ pc[t] # "idle" /\ pc[u] # "idle" /\ PairOf(t) = PairOf(u)) =>
      /\ ~(WaitsFor(t, u) /\ WaitsFor(u, t))
      /\ WaitsFor(t, u) => ~Blocked(u)
      /\ ~(Reaches(t, u, NumTx) /\ Reaches(u, t, NumTx))

\* A call from A to B waits for a row lock held by a call from B to A.
C17_Witness ==
  \E t \in Txs, u \in Txs :
    /\ WaitsFor(t, u)
    /\ arg[t].FromAccountID # arg[t].ToAccountID
    /\ arg[t].FromAccountID = arg[u].ToAccountID
    /\ arg[t].ToAccountID = arg[u].FromAccountID

\* C18: no update is lost: whatever the interleaving, each account's balance
\* is its starting balance plus the deltas of all the committed calls that
\* touch it (-amount as source, +amount as destination), and a call about to
\* commit has written, for each row it locked, the committed balance plus its
\* own delta.
C18_NoLostUpdate ==
  /\ \A id \in AccountIDs :
       accounts[id].Balance = StartBalance(id) + SumDelta(CommittedTxs, id)
  /\ \A t \in Txs, id \in AccountIDs :
       (pc[t] = "commit" /\ lock[id] = t) =>
         txBalance[t][id] = accounts[id].Balance + DeltaOf(arg[t], id)

\* Two committed calls adjusted one account, each by an amount other than
\* zero, and both have returned.
C18_Witness ==
  \E t \in Txs, u \in Txs, id \in AccountIDs :
    /\ t # u
    /\ Committed(t) /\ Committed(u)
    /\ DeltaOf(arg[t], id) # 0
    /\ DeltaOf(arg[u], id) # 0
    /\ accounts[id].Balance # StartBalance(id)

\* The account ids of the calls of operation op that call t made, in order.
IdsOf(t, op) == [i \in 1..Len(CallsOf(t, op)) |-> CallsOf(t, op)[i].id]

\* s is a start of sequence full.
IsPrefix(s, full) == Len(s) <= Len(full) /\ s = SubSeq(full, 1, Len(s))

\* C19: whatever errors occur, one TransferTx call begins its transaction at
\* most once and invokes CreateTransfer, the debit CreateEntry, the credit
\* CreateEntry and each of the two AddAccountBalance calls at most once each;
\* a failed step is the last repository call of the call.
C19_NoRetries ==
  \A t \in Txs :
    /\ Len(CallsOf(t, "BeginTx")) <= 1
    /\ Len(CallsOf(t, "CreateTransfer")) <= 1
    /\ IsPrefix(IdsOf(t, "CreateEntry"),
                << arg[t].FromAccountID, arg[t].ToAccountID >>)
    /\ IsPrefix(IdsOf(t, "AddAccountBalance"),
                << AddMoneyOrder(arg[t])[1].ID, AddMoneyOrder(arg[t])[2].ID >>)
    /\ Len(CallsOf(t, "Rollback")) + Len(CallsOf(t, "Commit")) <= 1
    /\ IsErr(fnErr[t]) =>
         /\ Len(calls[t]) >= 2
         /\ LET n == Len(calls[t]) - Len(CallsOf(t, "Rollback"))
            IN calls[t][n].op \in {"CreateTransfer", "CreateEntry", "AddAccountBalance"}

\* A call's second balance adjustment failed after the four calls before it
\* had succeeded, and the call has returned.
C19_Witness ==
  \E t \in Txs :
    /\ Done(t)
    /\ fnErr[t] \in StepErrs
    /\ Len(CallsOf(t, "AddAccountBalance")) = 2
    /\ Len(calls[t]) = 7

\* No two rows of a table share an id.
UniqueIDs(table) == \A r \in table, s \in table : r.ID = s.ID => r = s

C21_GetAccountStatus ==
  \A r \in Requests :
    LET q == http[r]
    IN q.pc = "responded" =>
         /\ ~ValidURI(q.id) => (q.status = StatusBadRequest /\ q.err = NotCalled)
         /\ ValidURI(q.id) => q.err # NotCalled
         /\ q.err = Nil =>
              (q.status = StatusOK /\ q.id \in AccountIDs /\ q.body = accounts[q.id])
         /\ q.err = ErrNoRows => (q.status = StatusNotFound /\ q.id \notin AccountIDs)
         /\ (IsErr(q.err) /\ q.err # ErrNoRows) => q.status = StatusInternalServerError
         /\ q.status \in {StatusOK, StatusBadRequest, StatusNotFound,
                          StatusInternalServerError}

\* Four requests have been answered, one with each status.
C21_Witness ==
  \A s \in {StatusOK, StatusBadRequest, StatusNotFound, StatusInternalServerError} :
    \E r \in Requests : http[r].pc = "responded" /\ http[r].status = s

\* The operations call t has invoked so far, in order.
OpsOf(t) == [i \in 1..Len(calls[t]) |-> calls[t][i].op]

\* The order of a whole successful call.
FullOrder ==
  << "BeginTx", "CreateTransfer", "CreateEntry", "CreateEntry",
     "AddAccountBalance", "AddAccountBalance", "Commit" >>

\* ops is a start of FullOrder, or a start of it that stops before the commit
\* and is closed by a rollback.
InOrder(ops) ==
  \/ IsPrefix(ops, FullOrder)
  \/ /\ Len(ops) >= 2
     /\ ops[Len(ops)] = "Rollback"
     /\ IsPrefix(SubSeq(ops, 1, Len(ops) - 1), SubSeq(FullOrder, 1, 6))

\* C22: within one call the steps run in one fixed order inside one
\* transaction: begin, CreateTransfer, CreateEntry for the source with
\* -amount, CreateEntry for the destination with +amount, the two
\* AddAccountBalance calls, then commit (or, after a failed step, rollback).
\* No balance adjustment is issued before both entries were created, and every
\* step runs on the call's transaction between its begin and its end.
C22_FixedOrder ==
  \A t \in Txs :
    /\ InOrder(OpsOf(t))
    /\ Len(CallsOf(t, "AddAccountBalance")) > 0 =>
         /\ Len(CallsOf(t, "CreateEntry")) = 2
         /\ result[t].FromEntry.ID > 0
         /\ result[t].ToEntry.ID > result[t].FromEntry.ID
         /\ result[t].FromEntry.Amount = -arg[t].Amount
         /\ result[t].ToEntry.Amount = arg[t].Amount
    /\ \A i \in 1..Len(calls[t]) :
         /\ i > 1 => calls[t][i].handle = t
         /\ calls[t][i].op \in {"Commit", "Rollback"} => i = Len(calls[t])
    /\ Done(t) /\ Len(calls[t]) > 1 =>
         calls[t][Len(calls[t])].op \in {"Commit", "Rollback"}

\* A call ran all seven of its steps and committed.
C22_Witness ==
  \E t \in Txs :
    /\ Committed(t)
    /\ OpsOf(t) = FullOrder

\* The errors a repository call can return.
RepoErrs == StepErrs \cup {ErrNoRows, ErrCanceled}

\* The repository operations of the workflow.
RepoOps == {"CreateTransfer", "CreateEntry", "AddAccountBalance"}

\* After a step of call t failed no repository call is made and nothing more
\* is stored in the result: the one call that can follow is the rollback.
NoStepAfterFailure(t) ==
  /\ result'[t] = result[t]
  /\ fnErr'[t] = fnErr[t]
  /\ \/ calls'[t] = calls[t]
     \/ calls'[t] = Append(calls[t], Call("Rollback", 0, t))

\* C23: when a repository step of the workflow returns an error no later step
\* of the workflow is invoked, and the unit of work returns that step's error
\* as it is: execTx returns it unchanged when the rollback succeeds and alters
\* it only when the rollback fails too.
C23_FirstFailureAborts ==
  /\ [](\A t \in Txs :
          IsErr(fnErr[t]) =>
            /\ fnErr[t] \in RepoErrs
            /\ pc[t] \in {"rollback", "done"}
            /\ Len(CallsOf(t, "Commit")) = 0
            /\ LET n == Len(calls[t]) - Len(CallsOf(t, "Rollback"))
               IN calls[t][n].op \in RepoOps
            /\ (Done(t) /\ rbErr[t] = Nil) => ret[t] = fnErr[t]
            /\ (Done(t) /\ IsErr(rbErr[t])) =>
                 (ret[t] = Errorf(fnErr[t], rbErr[t]) /\ ret[t] # fnErr[t]))
  /\ [][\A t \in Txs : IsErr(fnErr[t]) => NoStepAfterFailure(t)]_vars

\* The credit entry of a call failed after its transfer row and debit entry
\* were created; no balance was adjusted and the call returned that error.
C23_Witness ==
  \E t \in Txs :
    /\ Done(t)
    /\ fnErr[t] \in StepErrs
    /\ ret[t] = fnErr[t]
    /\ Len(CallsOf(t, "CreateEntry")) = 2
    /\ Len(CallsOf(t, "AddAccountBalance")) = 0
    /\ result[t].FromEntry.ID > 0
    /\ result[t].ToEntry.ID = 0

\* The query handles on which call t has issued repository calls.
HandlesOf(t) ==
  {calls[t][i].handle : i \in {j \in 1..Len(calls[t]) : calls[t][j].op \in RepoOps}}

\* C24: every call begins its own transaction and issues all its workflow
\* steps on the handle bound to it: a call never uses more than one handle,
\* never the store's own db, and no two calls ever use the same handle; what a
\* transaction holds uncommitted, rows and row locks, is its own call's.
C24_HandleExclusive ==
  /\ \A t \in Txs :
       /\ Len(CallsOf(t, "BeginTx")) <= 1
       /\ Cardinality(HandlesOf(t)) <= 1
       /\ 0 \notin HandlesOf(t)
       /\ txTransfers[t] \subseteq {result[t].Transfer}
       /\ txEntries[t] \subseteq {result[t].FromEntry, result[t].ToEntry}
       /\ \A id \in AccountIDs :
            lock[id] = t => (id \in PairOf(t) /\ pc[t] \in {"addMoney2", "commit", "rollback"})
  /\ \A t \in Txs, u \in Txs : t # u => HandlesOf(t) \cap HandlesOf(u) = {}

\* Two calls are in progress at once, each with rows inserted on its own
\* handle and not yet committed.
C24_Witness ==
  \E t \in Txs, u \in Txs :
    /\ t # u
    /\ pc[t] = "addMoney2" /\ pc[u] = "addMoney2"
    /\ txTransfers[t] # {} /\ txTransfers[u] # {}
    /\ HandlesOf(t) # {} /\ HandlesOf(u) # {}

\* The sum of f over the ids in S.
RECURSIVE SumOver(_, _)
SumOver(S, f) ==
  IF S = {} THEN 0
  ELSE LET id == CHOOSE x \in S : TRUE
       IN f[id] + SumOver(S \ {id}, f)

\* The money in all accounts together, now and at the start.
TotalBalance == SumOver(AccountIDs, [id \in AccountIDs |-> accounts[id].Balance])
StartTotal == SumOver(AccountIDs, [id \in AccountIDs |-> StartBalance(id)])

\* C25: in every committed state, whatever calls committed or were rolled
\* back, in whatever direction and on whatever accounts, the balances of all
\* accounts sum to what they summed to at the start.
C25_MoneyConserved == TotalBalance = StartTotal

\* One call has committed and moved money, and another was rolled back after
\* it had adjusted a balance inside its transaction.
C25_Witness ==
  \E t \in Txs, u \in Txs :
    /\ Committed(t)
    /\ accounts[arg[t].FromAccountID].Balance # StartBalance(arg[t].FromAccountID)
    /\ Done(u) /\ ~Committed(u)
    /\ result[u].FromAccount.ID + result[u].ToAccount.ID > 0

\* The sum of the amounts of the entry rows in S.
RECURSIVE SumAmounts(_)
SumAmounts(S) ==
  IF S = {} THEN 0
  ELSE LET e == CHOOSE x \in S : TRUE
       IN e.Amount + SumAmounts(S \ {e})

\* The committed entry rows of account id.
EntriesOf(id) == {e \in entries : e.AccountID = id}

\* C26: in every committed state every account's balance is its starting
\* balance plus the sum of the amounts of all committed entry rows of that
\* account.
C26_LedgerConsistent ==
  \A id \in AccountIDs :
    accounts[id].Balance = StartBalance(id) + SumAmounts(EntriesOf(id))

\* An account has the committed entries of two committed calls, and their
\* amounts sum to other than zero.
C26_Witness ==
  \E id \in AccountIDs, t \in Txs :
    /\ Cardinality(EntriesOf(id)) >= 2
    /\ SumAmounts(EntriesOf(id)) # 0
    /\ Committed(t)
    /\ \E u \in Txs : Committed(u) /\ u # t /\ id \in PairOf(t) \cap PairOf(u)

\* Among the calls in S, call t waits, directly or through at most n waits,
\* for a row lock that call u holds.
RECURSIVE ReachesIn(_, _, _, _)
ReachesIn(S, t, u, n) ==
  /\ n > 0
  /\ \/ WaitsFor(t, u)
     \/ \E v \in S : WaitsFor(t, v) /\ ReachesIn(S, v, u, n - 1)

\* C27: whatever accounts the concurrent calls touch, a ring 1 -> 2, 2 -> 3,
\* 3 -> 1 included, no reachable state has a circle of calls each waiting for
\* a row lock the next one holds, and while calls are in progress one of them
\* is not waiting for a lock.
C27_NoWaitCycle ==
  /\ \A t \in RingTxs : ~ReachesIn(RingTxs, t, t, NumRingTx)
  /\ (\E t \in RingTxs : pc[t] \notin {"idle", "done"}) =>
       (\E t \in RingTxs : pc[t] \notin {"idle", "done"} /\ ~Blocked(t))

\* Around the ring two calls wait at once: one for a lock the second holds,
\* the second for a lock the third holds.
C27_Witness ==
  \E t \in RingTxs, u \in RingTxs, v \in RingTxs :
    /\ t # u /\ u # v /\ t # v
    /\ WaitsFor(t, u)
    /\ WaitsFor(u, v)

\* C28: under weak fairness of the database steps every started call ends:
\* it reaches its terminal state and returns; it then holds no row lock, and
\* every call waiting for a lock stops waiting in the end.
C28_Terminates ==
  /\ \A t \in Txs : (pc[t] # "idle") ~> Done(t)
  /\ \A t \in Txs : Blocked(t) ~> ~Blocked(t)
  /\ [](\A t \in Txs : Done(t) => \A id \in AccountIDs : lock[id] # t)

\* A call waits for a row lock held by a call that is about to commit.
C28_Witness ==
  \E t \in Txs, u \in Txs :
    /\ WaitsFor(t, u)
    /\ pc[u] = "commit"

\* The balances after one call with params a has run alone and committed on
\* the balances bal: its two adjustments, in the order addMoney issues them.
RunAlone(bal, a) ==
  LET adj == AddMoneyOrder(a)
      b1 == [bal EXCEPT ![adj[1].ID] = NewBalance(@, adj[1].Amount)]
  IN [b1 EXCEPT ![adj[2].ID] = NewBalance(@, adj[2].Amount)]

\* The balances after the calls order[i], order[i+1], ... have run one after
\* another, starting from bal.
RECURSIVE RunSeq(_, _, _)
RunSeq(bal, order, i) ==
  IF i > Len(order) THEN bal
  ELSE RunSeq(RunAlone(bal, arg[order[i]]), order, i + 1)

\* Every order in which the calls can be run one after another.
Orders == {o \in [1..NumTx -> Txs] : \A i, j \in 1..NumTx : o[i] = o[j] => i = j}

\* What the rows say, leaving out the id the sequence gave them: ids go by
\* the order in which the inserts ran and differ from one run to another.
TransferContent(r) ==
  [FromAccountID |-> r.FromAccountID, ToAccountID |-> r.ToAccountID, Amount |-> r.Amount]
EntryContent(e) == [AccountID |-> e.AccountID, Amount |-> e.Amount]

\* C29: when all the calls have committed, the committed balances, the
\* committed transfers and the committed entries (rows compared by what they
\* say, each counted as often as it occurs) are what running the same calls
\* one after another gives, in whatever order: every interleaving ends in the
\* same committed state.
C29_OrderIndependent ==
  AllSucceeded =>
    /\ \A o \in Orders :
         [id \in AccountIDs |-> accounts[id].Balance]
           = RunSeq([id \in AccountIDs |-> StartBalance(id)], o, 1)
    /\ \A a \in TransferTxParams :
         Cardinality({r \in transfers : TransferContent(r) = CreateTransferParams(a)})
           = Cardinality({t \in Txs : arg[t] = a})
    /\ \A id \in AccountIDs, amt \in -MaxAmount..MaxAmount :
         LET c == [AccountID |-> id, Amount |-> amt]
         IN Cardinality({e \in entries : EntryContent(e) = c})
              = Cardinality({t \in Txs : FromEntryParams(arg[t]) = c})
                + Cardinality({t \in Txs : ToEntryParams(arg[t]) = c})

\* Two calls on a common account have committed after their inserts were
\* interleaved: one created its transfer row first, the other its debit entry.
C29_Witness ==
  \E t \in Txs, u \in Txs :
    /\ AllSucceeded
    /\ t # u
    /\ PairOf(t) \cap PairOf(u) # {}
    /\ arg[t].Amount # arg[u].Amount
    /\ result[t].Transfer.ID < result[u].Transfer.ID
    /\ result[t].FromEntry.ID > result[u].FromEntry.ID

\* A step of call t leaves every account outside its pair as it was, changes
\* nothing but the balance of the two accounts of the pair, and changes no
\* account at all unless it is the commit.
FrameStep(t) ==
  pc'[t] # pc[t] =>
    /\ DOMAIN accounts' = DOMAIN accounts
    /\ \A id \in AccountIDs :
         /\ id \notin {arg'[t].FromAccountID, arg'[t].ToAccountID} =>
              accounts'[id] = accounts[id]
         /\ accounts'[id].ID = accounts[id].ID
         /\ accounts'[id].Owner = accounts[id].Owner
         /\ accounts'[id].Currency = accounts[id].Currency
    /\ ~(Committed(t))' => accounts' = accounts

\* C30: a call from account a to account b changes the balance of no account
\* but a and b, changes no account's id, owner or currency, and creates and
\* deletes no account, whether it commits or is rolled back.
C30_Frame ==
  /\ [](/\ DOMAIN accounts = AccountIDs
        /\ \A id \in AccountIDs :
             /\ [accounts[id] EXCEPT !.Balance = StartBalance(id)] = StartAccount(id)
             /\ (\A t \in Txs : Committed(t) => id \notin PairOf(t))
                  => accounts[id] = StartAccount(id))
  /\ [][\A t \in Txs : FrameStep(t)]_vars

\* One call committed and changed the balances of its two accounts; another,
\* which touches an account the first does not, was rolled back after
\* adjusting both its balances, and that account is as it was.
C30_Witness ==
  \E t \in Txs, u \in Txs, id \in AccountIDs :
    /\ Committed(t)
    /\ arg[t].FromAccountID # arg[t].ToAccountID
    /\ RolledBack(u)
    /\ Len(CallsOf(u, "AddAccountBalance")) = 2
    /\ id \in PairOf(u) \ PairOf(t)
    /\ accounts[id] = StartAccount(id)
    /\ accounts[arg[t].FromAccountID] # StartAccount(arg[t].FromAccountID)

\* ------------------------------------------------------------------ C31
\* TransferTx of call t has an error to return that neither the unit of work
\* nor the commit gave: BeginTx failed.
BeginFailed(t) ==
  IsErr(ret[t]) /\ fnErr[t] = NotCalled /\ commitErr[t] = NotCalled

\* The step in which BeginTx of call t fails changes nothing in the store and
\* nothing a transaction holds.
BeginFailureStep(t) ==
  (pc[t] = "idle" /\ IsErr(ret'[t])) =>
    /\ pc'[t] = "done"
    /\ result'[t] = ZeroResult
    /\ UNCHANGED <<accounts, transfers, entries, transferSeq, entrySeq, lock,
                   txTransfers, txEntries, txBalance>>

\* C31: when beginning the transaction fails, execTx returns that error as it
\* is, the unit of work is not invoked, neither commit nor rollback is called,
\* and TransferTx returns the empty result, the store being left as it was.
C31_BeginFailure ==
  /\ [](\A t \in Txs :
          BeginFailed(t) =>
            /\ Done(t)
            /\ ret[t] \in BeginErrs
            /\ calls[t] = <<Call("BeginTx", 0, 0)>>
            /\ rbErr[t] = NotCalled
            /\ result[t] = ZeroResult
            /\ txTransfers[t] = {} /\ txEntries[t] = {}
            /\ \A id \in AccountIDs : lock[id] # t)
  /\ [][\A t \in Txs : BeginFailureStep(t)]_vars

\* One call failed to begin while another call committed its transfer.
C31_Witness ==
  \E t, u \in Txs :
    /\ BeginFailed(t) /\ Done(t)
    /\ result[t] = ZeroResult
    /\ Committed(u)
    /\ result[u].Transfer \in transfers

\* ------------------------------------------------------------------ C32
\* The number of repository calls of call t that returned without an error.
Succeeded(t) ==
  Len(SelectSeq(calls[t], LAMBDA c : c.op \in RepoOps))
    - (IF IsErr(fnErr[t]) THEN 1 ELSE 0)

\* The result of call t carries the records of its first n steps, and the
\* zero value in the fields of the steps that failed or were never reached.
Carries(t, n) ==
  LET a == arg[t]
      r == result[t]
      first == AddMoneyOrder(a)[1]
      second == AddMoneyOrder(a)[2]
  IN /\ IF n >= 1
          THEN r.Transfer.ID > 0 /\ CreateTransferParams(a) =
                 [FromAccountID |-> r.Transfer.FromAccountID,
                  ToAccountID |-> r.Transfer.ToAccountID,
                  Amount |-> r.Transfer.Amount]
          ELSE r.Transfer = ZeroTransfer
     /\ IF n >= 2
          THEN r.FromEntry.ID > 0 /\ r.FromEntry.AccountID = a.FromAccountID
                 /\ r.FromEntry.Amount = -a.Amount
          ELSE r.FromEntry = ZeroEntry
     /\ IF n >= 3
          THEN r.ToEntry.ID > 0 /\ r.ToEntry.AccountID = a.ToAccountID
                 /\ r.ToEntry.Amount = a.Amount
          ELSE r.ToEntry = ZeroEntry
     /\ IF n >= 4 THEN r[first.Field].ID = first.ID
                  ELSE r[first.Field] = ZeroAccount
     /\ IF n >= 5 THEN r[second.Field].ID = second.ID
                  ELSE r[second.Field] = ZeroAccount

\* No committed row is, or has the id of, a transfer or entry record that the
\* result of call t carries, and no committed balance holds an adjustment of
\* call t: each is its start and what the committed calls added.
NothingOfResultCommitted(t) ==
  LET r == result[t]
  IN /\ r.Transfer \notin transfers
     /\ \A x \in transfers : x.ID # r.Transfer.ID
     /\ r.FromEntry \notin entries /\ r.ToEntry \notin entries
     /\ \A e \in entries : e.ID \notin {r.FromEntry.ID, r.ToEntry.ID}
     /\ t \notin CommittedTxs
     /\ \A id \in AccountIDs :
          accounts[id].Balance = StartBalance(id) + SumDelta(CommittedTxs, id)

\* C32: whenever TransferTx returns an error none of the records its result
\* carries is in the committed store, and the result is not reset: it carries
\* the records of the steps that succeeded before the failure, all five when
\* only the commit failed.
C32_ResultOnError ==
  \A t \in Txs :
    (Done(t) /\ IsErr(ret[t])) =>
      /\ NothingOfResultCommitted(t)
      /\ Succeeded(t) \in 0..5
      /\ Carries(t, Succeeded(t))
      /\ (fnErr[t] = Nil /\ IsErr(commitErr[t])) => Succeeded(t) = 5

\* The commit of one call failed, so its result carries all five records, and
\* another call failed at its second balance adjustment, carrying four; a
\* third record of neither is in the store.
C32_Witness ==
  \E t, u \in Txs :
    /\ Done(t) /\ IsErr(ret[t]) /\ fnErr[t] = Nil /\ IsErr(commitErr[t])
    /\ result[t].Transfer.ID > 0
    /\ result[t].FromAccount.ID > 0 /\ result[t].ToAccount.ID > 0
    /\ Done(u) /\ IsErr(ret[u]) /\ Succeeded(u) = 4
    /\ result[u].ToEntry.ID > 0
    /\ ZeroAccount \in {result[u].FromAccount, result[u].ToAccount}
    /\ {result[u].FromAccount, result[u].ToAccount} # {ZeroAccount}
    /\ transfers = {} /\ entries = {}

\* ------------------------------------------------------------------ C33
\* Call t moves money from an account to that same account.
SelfTransfer(t) ==
  arg[t].FromAccountID = arg[t].ToAccountID /\ arg[t].FromAccountID \in AccountIDs

\* The step in which the transaction of the self-transfer t commits.
SelfCommitStep(t) ==
  LET a == arg[t]
      id == a.FromAccountID
      r == result[t]
      before == accounts[id].Balance
  IN (SelfTransfer(t) /\ pc[t] = "commit" /\ pc'[t] = "done" /\ commitErr'[t] = Nil) =>
       /\ ret'[t] = Nil
       /\ transfers' \ transfers =
            {[ID |-> r.Transfer.ID, FromAccountID |-> id, ToAccountID |-> id,
              Amount |-> a.Amount]}
       /\ entries' \ entries =
            {[ID |-> r.FromEntry.ID, AccountID |-> id, Amount |-> -a.Amount],
             [ID |-> r.ToEntry.ID, AccountID |-> id, Amount |-> a.Amount]}
       /\ r.FromEntry.ID # r.ToEntry.ID
       /\ OpsOf(t) = SubSeq(FullOrder, 1, 6)
       /\ calls[t][5].id = id /\ calls[t][6].id = id
       /\ accounts' = accounts
       /\ r.ToAccount = [accounts[id] EXCEPT !.Balance = before + a.Amount]
       /\ r.FromAccount = [accounts[id] EXCEPT !.Balance = before]
       /\ result'[t] = r

C34_GetAccountCalls ==
  \A r \in Requests :
    LET q == http[r]
    IN q.pc = "responded" =>
         /\ q.id < 1 => (q.status = StatusBadRequest /\ q.store = << >>)
         /\ q.id >= 1 => q.store = <<StoreCall("GetAccount", q.id)>>

\* GET /accounts/0 has been answered with 400 and no store call, and a GET
\* of an account that exists with 200 after one GetAccount of its id.
C34_Witness ==
  \E r, s \in Requests :
    /\ http[r].pc = "responded" /\ http[r].id = 0
    /\ http[r].status = StatusBadRequest /\ http[r].store = << >>
    /\ http[s].pc = "responded" /\ http[s].id \in AccountIDs
    /\ http[s].status = StatusOK
    /\ http[s].store = <<StoreCall("GetAccount", http[s].id)>>

\* ------------------------------------------------------------------ C35
\* The account rows created through POST /accounts.
CreatedAccounts == {accounts[id] : id \in DOMAIN accounts \ AccountIDs}

\* The requests that POST /accounts answered with 200.
CreatedRequests ==
  {r \in Requests : http[r].pc = "created" /\ http[r].status = StatusOK}

\* C35: every account created by createAccount is stored with balance 0,
\* whatever the request contains; a request that fails validation (owner
\* missing, or currency not one of USD, EUR) is answered with 400 and never
\* reaches the store, and a store error is answered with 500.
C35_CreateAccount ==
  /\ \A row \in CreatedAccounts : row.Balance = 0
  /\ Cardinality(CreatedAccounts) = Cardinality(CreatedRequests)
  /\ \A r \in Requests :
       LET q == http[r]
       IN q.pc = "created" =>
            /\ (q.req.owner = "" \/ q.req.currency \notin {"USD", "EUR"}) =>
                 (q.status = StatusBadRequest /\ q.store = << >>)
            /\ (q.req.owner # "" /\ q.req.currency \in {"USD", "EUR"}) =>
                 /\ Len(q.store) = 1
                 /\ q.store[1].op = "CreateAccount"
                 /\ q.store[1].arg.Balance = 0
                 /\ q.store[1].arg.Owner = q.req.owner
                 /\ q.store[1].arg.Currency = q.req.currency
                 /\ q.err # NotCalled
            /\ IsErr(q.err) => q.status = StatusInternalServerError
            /\ q.err = Nil =>
                 /\ q.status = StatusOK
                 /\ q.body \in CreatedAccounts
                 /\ q.body.Balance = 0
                 /\ q.body.Owner = q.req.owner
                 /\ q.body.Currency = q.req.currency

\* A request that asked for a balance above zero was answered with 200 and
\* its account stored with balance 0; a request without owner and a request
\* in a currency not allowed were answered with 400, and a store error with
\* 500.
C35_Witness ==
  \E r1, r2, r3, r4 \in Requests :
    /\ http[r1].pc = "created" /\ http[r1].status = StatusOK
    /\ http[r1].req.balance > 0
    /\ http[r1].body \in CreatedAccounts /\ http[r1].body.Balance = 0
    /\ http[r2].pc = "created" /\ http[r2].req.owner = ""
    /\ http[r2].req.currency = "USD" /\ http[r2].status = StatusBadRequest
    /\ http[r3].pc = "created" /\ http[r3].req.owner # ""
    /\ http[r3].req.currency = "CAD" /\ http[r3].status = StatusBadRequest
    /\ http[r4].pc = "created" /\ IsErr(http[r4].err)
    /\ http[r4].status = StatusInternalServerError

\* ------------------------------------------------------------------ C36
\* The transaction of call t is open: begun, neither committed nor rolled back.
InTx(t) == pc[t] \notin {"idle", "done"}

\* GetTransfer of the id of record r on handle h returns r's id, account ids
\* and amount.
TransferRoundTrip(h, r) ==
  LET got == GetTransfer(h, r.ID)
  IN /\ got.err = Nil
     /\ got.row.ID = r.ID
     /\ got.row.FromAccountID = r.FromAccountID
     /\ got.row.ToAccountID = r.ToAccountID
     /\ got.row.Amount = r.Amount

\* GetEntry of the id of record e on handle h returns e's id, account id and
\* amount.
EntryRoundTrip(h, e) ==
  LET got == GetEntry(h, e.ID)
  IN /\ got.err = Nil
     /\ got.row.ID = e.ID
     /\ got.row.AccountID = e.AccountID
     /\ got.row.Amount = e.Amount

PageSize(n, limit, offset) == Min(limit, Max(0, n - offset))

\* The rows of the sequence s are rows of the table, each once.
RowsOnce(s, table) ==
  /\ \A i \in 1..Len(s) : s[i] \in table
  /\ \A i, j \in 1..Len(s) : s[i] = s[j] => i = j

====
